---- MODULE Spec2Model ----
(***************************************************************************)
(* Model of streamlit_app.py: the four sheet loaders (load_sales_data,     *)
(* load_bank_data, load_outflow_data, load_account_data), the aggregations *)
(* of the three views and the control flow of main().                      *)
(*                                                                         *)
(* Text is a tuple of one-character strings, so that ==, str.replace,      *)
(* str.lower and str.strip are computed character by character.  A cell is *)
(* a record [t, n, s]: t is the kind of value pandas holds, n its number   *)
(* (a date is the number yyyymmdd), s its text.  Rows and columns are      *)
(* numbered from 1 here; pandas numbers them from 0.                       *)
(***************************************************************************)
EXTENDS Integers, Sequences, FiniteSets, TLC

(* ---------------------------------------------------------------- text *)

SrNo_s ==
    <<"S", "r", " ", "N", "o">>
AcNo_s ==
    <<"A", "/", "c", " ", "#">>
Area_s ==
    <<"A", "r", "e", "a">>
SaleConsideration_s ==
    <<"S", "a", "l", "e", " ", "C", "o", "n", "s", "i", "d", "e", "r", "a", "t", "i", "o", "n">>
BSP_s ==
    <<"B", "S", "P">>
FeedDate_s ==
    <<"F", "e", "e", "d", " ", "i", "n", " ", "3", "0", "-", "M", "o", "n", "t", "h", "-", "Y", "e", "a", "r", " ", "f", "o", "r", "m", "a", "t">>
BHK_s ==
    <<"B", "H", "K">>
Other_s ==
    <<"O", "t", "h", "e", "r">>
Credit_s ==
    <<"C", "r", "e", "d", "i", "t">>
Debit_s ==
    <<"D", "e", "b", "i", "t">>
Balance_s ==
    <<"B", "a", "l", "a", "n", "c", "e">>
AccountDescription_s ==
    <<"A", "c", "c", "o", "u", "n", "t", " ", "D", "e", "s", "c", "r", "i", "p", "t", "i", "o", "n">>
AccountNo_s ==
    <<"A", "c", "c", "o", "u", "n", "t", " ", "N", "o">>
DateOfPayment_s ==
    <<"D", "a", "t", "e", " ", "o", "f", " ", "P", "a", "y", "m", "e", "n", "t">>
GrossAmount_s ==
    <<"G", "r", "o", "s", "s", " ", "A", "m", "o", "u", "n", "t">>
CodeTagging_s ==
    <<"C", "o", "d", "e", " ", "T", "a", "g", "g", "i", "n", "g">>
Amount_s ==
    <<"A", "m", "o", "u", "n", "t">>
RunningTotal_s ==
    <<"R", "u", "n", "n", "i", "n", "g", " ", "T", "o", "t", "a", "l">>
Month_s ==
    <<"M", "o", "n", "t", "h">>

Digits == <<"0", "1", "2", "3", "4", "5", "6", "7", "8", "9">>

IsDigit(c) == \E d \in 1..10 : Digits[d] = c

DigitVal(c) == (CHOOSE d \in 1..10 : Digits[d] = c) - 1

RECURSIVE StrToInt(_)
StrToInt(s) ==
    IF Len(s) = 0 THEN 0
    ELSE 10 * StrToInt(SubSeq(s, 1, Len(s) - 1)) + DigitVal(s[Len(s)])

RECURSIVE IntToStr(_)
IntToStr(k) ==
    IF k < 10 THEN <<Digits[k + 1]>>
    ELSE IntToStr(k \div 10) \o <<Digits[(k % 10) + 1]>>

(* str.replace(old, ''), old a single character *)
RECURSIVE str_replace(_, _)
str_replace(s, old) ==
    IF Len(s) = 0 THEN <<>>
    ELSE IF Head(s) = old THEN str_replace(Tail(s), old)
    ELSE <<Head(s)>> \o str_replace(Tail(s), old)

(* --------------------------------------------------------------- cells *)

NaN == [t |-> "nan", n |-> 0, s |-> <<>>]
NaT == [t |-> "nat", n |-> 0, s |-> <<>>]
Inf == [t |-> "inf", n |-> 0, s |-> <<>>]
Num(k) == [t |-> "num", n |-> k, s |-> <<>>]
Date(d) == [t |-> "date", n |-> d, s |-> <<>>]
Str(x) == [t |-> "str", n |-> 0, s |-> x]

(* pd.isna *)
isna(c) == c.t \in {"nan", "nat"}

(* pd.to_numeric(col.str.strip(), errors='coerce'): only text is parsed, *)
(* a cell that is a number already becomes NaN                           *)
to_numeric_str(c) ==
    CASE c.t = "str" /\ Len(c.s) > 0 /\ (\A i \in 1..Len(c.s) : IsDigit(c.s[i]))
           -> Num(StrToInt(c.s))
      [] c.t = "str" /\ c.s = <<"i", "n", "f">> -> Inf
      [] OTHER -> NaN

(* pd.to_numeric(..., errors='ignore'): text that does not parse stays *)
to_numeric_ignore(c) ==
    CASE c.t = "num" -> c
      [] c.t = "inf" -> c
      [] c.t = "str" /\ Len(c.s) > 0 /\ (\A i \in 1..Len(c.s) : IsDigit(c.s[i]))
           -> Num(StrToInt(c.s))
      [] c.t = "str" /\ c.s = <<"i", "n", "f">> -> Inf
      [] OTHER -> c

(* pd.to_numeric(..., errors='coerce') on one cell: a number stays, text   *)
(* of digits and the text 'inf' parse, everything else becomes NaN.        *)
to_numeric(c) ==
    CASE c.t = "num" -> c
      [] c.t = "inf" -> c
      [] c.t = "str" /\ Len(c.s) > 0 /\ (\A i \in 1..Len(c.s) : IsDigit(c.s[i]))
           -> Num(StrToInt(c.s))
      [] c.t = "str" /\ c.s = <<"i", "n", "f">> -> Inf
      [] OTHER -> NaN

(* pd.to_datetime(..., errors='coerce') on one cell: a date stays, an      *)
(* integer is a count of nanoseconds since 1970-01-01, text that is no     *)
(* date and a blank become NaT.                                            *)
to_datetime(c) ==
    CASE c.t = "date" -> c
      [] c.t = "num" -> Date(19700101)
      [] OTHER -> NaT

(* Timestamp.to_period('M'): the number yyyymm *)
to_period_M(c) == c.n \div 100

(* str(value), the cell-wise step of Series.astype(str) *)
astype_str(c) ==
    CASE c.t = "str" -> c.s
      [] c.t = "num" -> IntToStr(c.n)
      [] c.t = "inf" -> <<"i", "n", "f">>
      [] c.t = "nan" -> <<"n", "a", "n">>
      [] c.t = "nat" -> <<"N", "a", "T">>
      [] c.t = "date" ->
            IntToStr(c.n \div 10000) \o <<"-">>
            \o IntToStr((c.n \div 1000) % 10) \o IntToStr((c.n \div 100) % 10)
            \o <<"-">> \o IntToStr((c.n \div 10) % 10) \o IntToStr(c.n % 10)
            \o <<" ", "0", "0", ":", "0", "0", ":", "0", "0">>

(* Series.fillna(value) on one cell *)
fillna(c, value) == IF isna(c) THEN Str(value) ELSE c

(* --------------------------------------------------------- data frames *)
(* A frame is [cols, rows]: cols the column labels (cells), rows a        *)
(* sequence of [idx, cells], idx the row's index label.                   *)

EmptyDF == [cols |-> <<>>, rows |-> <<>>]

Raise(e) == [ok |-> FALSE, err |-> e, df |-> EmptyDF]
Return(df) == [ok |-> TRUE, err |-> "", df |-> df]

SetMin(S) == CHOOSE x \in S : \A y \in S : x <= y

(* boolean-mask selection that stacks the kept rows in reverse *)
RECURSIVE SelectRows_rev(_, _)
SelectRows_rev(rows, keep) ==
    IF Len(rows) = 0 THEN <<>>
    ELSE IF keep[1] THEN SelectRows_rev(Tail(rows), Tail(keep)) \o <<Head(rows)>>
    ELSE SelectRows_rev(Tail(rows), Tail(keep))

RECURSIVE SelectRows(_, _)
SelectRows(rows, keep) ==
    IF Len(rows) = 0 THEN <<>>
    ELSE IF keep[1] THEN <<Head(rows)>> \o SelectRows(Tail(rows), Tail(keep))
    ELSE SelectRows(Tail(rows), Tail(keep))

(* positions of the columns whose label is the text name *)
ColPositions(df, name) == {j \in 1..Len(df.cols) : df.cols[j] = Str(name)}

(* `name in df.columns` *)
HasCol(df, name) == ColPositions(df, name) # {}

ColPos(df, name) == SetMin(ColPositions(df, name))

(* df[name] as a sequence of cells, name a unique label *)
Column(df, name) == [k \in 1..Len(df.rows) |-> df.rows[k].cells[ColPos(df, name)]]

(* df[name] = cells, name a unique label *)
SetCol(df, name, cells) ==
    [df EXCEPT !.rows =
        [k \in 1..Len(df.rows) |->
            [df.rows[k] EXCEPT !.cells[ColPos(df, name)] = cells[k]]]]

(* pd.read_excel(..., header=None): the sheet's rows as they are; a sheet *)
(* that does not exist raises ValueError.                                 *)
read_excel_raw(sheet) ==
    IF ~sheet.present THEN Raise("ValueError")
    ELSE Return([cols |-> <<>>,
                 rows |-> [k \in 1..Len(sheet.rows) |->
                              [idx |-> k, cells |-> sheet.rows[k]]]])

(* df[df[0] == marker].index: the rows whose first cell is the marker *)
MarkerIndex(df, marker) ==
    {k \in 1..Len(df.rows) : df.rows[k].cells[1] = Str(marker)}

(* headers = df.iloc[header_row]; df = df.iloc[header_row + 1:].copy();   *)
(* df.columns = headers                                                   *)
PromoteHeader(df, header_row) ==
    [cols |-> df.rows[header_row].cells,
     rows |-> SubSeq(df.rows, header_row + 1, Len(df.rows))]

(* if col in df.columns: df[col] = pd.to_numeric(df[col], errors='coerce') *)
(* With the label carried by two columns df[col] is a frame and            *)
(* pd.to_numeric raises TypeError.                                         *)
CoerceNumeric(r, col) ==
    IF ~r.ok \/ ~HasCol(r.df, col) THEN r
    ELSE IF Cardinality(ColPositions(r.df, col)) > 1 THEN Raise("TypeError")
    ELSE Return(SetCol(r.df, col,
            [k \in 1..Len(r.df.rows) |-> to_numeric(Column(r.df, col)[k])]))


(* the date column is left as it was read *)
CoerceDate_skip(r, col) == r

(* if col in df.columns: df[col] = pd.to_datetime(df[col], errors='coerce') *)
CoerceDate(r, col) ==
    IF ~r.ok \/ ~HasCol(r.df, col) THEN r
    ELSE IF Cardinality(ColPositions(r.df, col)) > 1 THEN Raise("ValueError")
    ELSE Return(SetCol(r.df, col,
            [k \in 1..Len(r.df.rows) |-> to_datetime(Column(r.df, col)[k])]))

(* The unit-type text of one cell:                                         *)
(* fillna('Other') then astype(str).str.replace('-', '')                   *)
StandardizeBHK(c) == Str(str_replace(astype_str(fillna(c, Other_s)), "-"))

StandardizeBHKCol(r) ==
    IF ~r.ok \/ ~HasCol(r.df, BHK_s) THEN r
    ELSE IF Cardinality(ColPositions(r.df, BHK_s)) > 1 THEN Raise("AttributeError")
    ELSE Return(SetCol(r.df, BHK_s,
            [k \in 1..Len(r.df.rows) |-> StandardizeBHK(Column(r.df, BHK_s)[k])]))

(* df.dropna(how='all'): only the rows that are blank in every column go *)
dropna_blank(r, col) ==
    IF ~r.ok THEN r
    ELSE IF ~HasCol(r.df, col) THEN Raise("KeyError")
    ELSE Return([r.df EXCEPT !.rows =
            SelectRows(r.df.rows,
                [k \in 1..Len(r.df.rows) |->
                    \E j \in 1..Len(r.df.cols) : ~isna(r.df.rows[k].cells[j])])])

(* df.dropna(subset=[col]): KeyError when no column carries the label *)
dropna(r, col) ==
    IF ~r.ok THEN r
    ELSE IF ~HasCol(r.df, col) THEN Raise("KeyError")
    ELSE Return([r.df EXCEPT !.rows =
            SelectRows(r.df.rows,
                [k \in 1..Len(r.df.rows) |->
                    \A j \in ColPositions(r.df, col) : ~isna(r.df.rows[k].cells[j])])])

(* ------------------------------------------------------------- loaders *)

SetMax(S) == CHOOSE x \in S : \A y \in S : x >= y

(* df[df[0] == marker].index[-1]: the last marker row instead of the first *)
LocateHeader_last(sheet, marker) ==
    LET r == read_excel_raw(sheet) IN
    IF ~r.ok THEN r
    ELSE IF Len(r.df.rows) = 0 THEN Raise("KeyError")
    ELSE IF MarkerIndex(r.df, marker) = {} THEN Raise("IndexError")
    ELSE Return(PromoteHeader(r.df, SetMax(MarkerIndex(r.df, marker))))

LocateHeader(sheet, marker) ==
    LET r == read_excel_raw(sheet) IN
    IF ~r.ok THEN r
    ELSE IF Len(r.df.rows) = 0 THEN Raise("KeyError")
    ELSE IF MarkerIndex(r.df, marker) = {} THEN Raise("IndexError")
    ELSE Return(PromoteHeader(r.df, SetMin(MarkerIndex(r.df, marker))))

load_sales_data(file) ==
    dropna(
        StandardizeBHKCol(
            CoerceDate(
                CoerceNumeric(CoerceNumeric(CoerceNumeric(
                    LocateHeader(file.sales, SrNo_s),
                    Area_s), SaleConsideration_s), BSP_s),
                FeedDate_s)),
        SaleConsideration_s)

load_bank_data(file) ==
    dropna(
        CoerceNumeric(CoerceNumeric(CoerceNumeric(
            LocateHeader(file.bank, AcNo_s),
            Credit_s), Debit_s), Balance_s),
        Balance_s)

Unnamed_s ==
    <<"U", "n", "n", "a", "m", "e", "d", ":", " ">>

(* The label pd.read_excel gives column j of a header row: a blank label  *)
(* becomes 'Unnamed: j', the c-th repetition of a text label gets '.c'.   *)
MangleLabel(row, j) ==
    LET c == Cardinality({i \in 1..(j - 1) : row[i] = row[j]}) IN
    IF isna(row[j]) THEN Str(Unnamed_s \o IntToStr(j - 1))
    ELSE IF row[j].t = "str" /\ c > 0 THEN Str(row[j].s \o <<".">> \o IntToStr(c))
    ELSE row[j]

(* pd.read_excel(...) with the default header: the first row of the sheet *)
(* is the column labels and the index starts again below it.              *)
read_excel(sheet) ==
    IF ~sheet.present THEN Raise("ValueError")
    ELSE IF Len(sheet.rows) = 0 THEN Return(EmptyDF)
    ELSE Return([cols |-> [j \in 1..Len(sheet.rows[1]) |-> MangleLabel(sheet.rows[1], j)],
                 rows |-> [k \in 1..(Len(sheet.rows) - 1) |->
                              [idx |-> k, cells |-> sheet.rows[k + 1]]]])

(* df[col] = pd.to_datetime(df[col], errors='coerce'), no membership test *)
AssignDate(r, col) ==
    IF ~r.ok THEN r
    ELSE IF ~HasCol(r.df, col) THEN Raise("KeyError")
    ELSE Return(SetCol(r.df, col,
            [k \in 1..Len(r.df.rows) |-> to_datetime(Column(r.df, col)[k])]))

(* df[col] = pd.to_numeric(df[col], errors='coerce'), no membership test *)
AssignNumeric(r, col) ==
    IF ~r.ok THEN r
    ELSE IF ~HasCol(r.df, col) THEN Raise("KeyError")
    ELSE Return(SetCol(r.df, col,
            [k \in 1..Len(r.df.rows) |-> to_numeric(Column(r.df, col)[k])]))

None == [some |-> FALSE, df |-> EmptyDF]
Some(df) == [some |-> TRUE, df |-> df]

(* the loader without its final dropna(subset=['Gross Amount']) *)
load_outflow_data_nodrop(file) ==
    LET r == AssignNumeric(
                AssignDate(read_excel(file.outflow), DateOfPayment_s),
                GrossAmount_s)
    IN IF r.ok THEN Some(r.df) ELSE None

(* try: ... except: return None *)
load_outflow_data(file) ==
    LET r == dropna(
                AssignNumeric(
                    AssignDate(read_excel(file.outflow), DateOfPayment_s),
                    GrossAmount_s),
                GrossAmount_s)
    IN IF r.ok THEN Some(r.df) ELSE None

UpperCase == <<"A", "B", "C", "D", "E", "F", "G", "H", "I", "J", "K", "L", "M",
               "N", "O", "P", "Q", "R", "S", "T", "U", "V", "W", "X", "Y", "Z">>
LowerCase == <<"a", "b", "c", "d", "e", "f", "g", "h", "i", "j", "k", "l", "m",
               "n", "o", "p", "q", "r", "s", "t", "u", "v", "w", "x", "y", "z">>

Whitespace == {" ", "\t", "\n"}

(* str.lower *)
str_lower(s) ==
    [i \in 1..Len(s) |->
        IF \E u \in 1..Len(UpperCase) : UpperCase[u] = s[i]
        THEN LowerCase[CHOOSE u \in 1..Len(UpperCase) : UpperCase[u] = s[i]]
        ELSE s[i]]

(* str.strip *)
RECURSIVE str_strip(_)
str_strip(s) ==
    IF Len(s) = 0 THEN s
    ELSE IF Head(s) \in Whitespace THEN str_strip(Tail(s))
    ELSE IF s[Len(s)] \in Whitespace THEN str_strip(SubSeq(s, 1, Len(s) - 1))
    ELSE s

(* any(str(val).lower().strip() in ['txn date', 'date'] for val in row) *)
IsDateHeaderRow(row) ==
    \E j \in 1..Len(row.cells) :
        str_strip(str_lower(astype_str(row.cells[j])))
            \in {<<"t", "x", "n", " ", "d", "a", "t", "e">>, <<"d", "a", "t", "e">>}

(* df.dropna(subset=[col], how='all') *)
dropna_all(r, col) ==
    IF ~r.ok THEN r
    ELSE IF ~HasCol(r.df, col) THEN Raise("KeyError")
    ELSE Return([r.df EXCEPT !.rows =
            SelectRows(r.df.rows,
                [k \in 1..Len(r.df.rows) |->
                    \E j \in ColPositions(r.df, col) : ~isna(r.df.rows[k].cells[j])])])

(* The body of the loop of load_account_data for one sheet: the frame to  *)
(* store, or None when the sheet is skipped or an exception was caught.   *)
load_account_sheet(sheet) ==
    LET r == read_excel(sheet)
        starts == IF r.ok THEN {k \in 1..Len(r.df.rows) : IsDateHeaderRow(r.df.rows[k])}
                  ELSE {}
    IN  IF ~r.ok \/ starts = {} THEN None
        ELSE LET d == dropna_all(
                        CoerceNumeric(
                            CoerceNumeric(Return(PromoteHeader(r.df, SetMin(starts))),
                                          Amount_s),
                            RunningTotal_s),
                        Amount_s)
             IN IF d.ok /\ Len(d.df.rows) > 0 THEN Some(d.df) ELSE None

NumAccounts == 13

(* f"Ac #{i}" *)
SheetName(i) == <<"A", "c", " ", "#">> \o IntToStr(i)

(* for i in range(1, 14): the entries stored for the sheets i..13, in the *)
(* order the loop stores them                                             *)
RECURSIVE LoadAccountsFrom(_, _)
LoadAccountsFrom(file, i) ==
    IF i > NumAccounts THEN <<>>
    ELSE LET a == load_account_sheet(file.accounts[i]) IN
         (IF a.some THEN <<[name |-> SheetName(i), df |-> a.df]>> ELSE <<>>)
         \o LoadAccountsFrom(file, i + 1)

load_account_data(file) == LoadAccountsFrom(file, 1)

(* ---------------------------------------------------------- aggregates *)

RECURSIVE SumNum(_)
SumNum(cells) ==
    IF Len(cells) = 0 THEN 0
    ELSE (IF Head(cells).t = "num" THEN Head(cells).n ELSE 0) + SumNum(Tail(cells))

(* Series.sum(): missing cells are skipped, an infinite cell makes the    *)
(* sum infinite.                                                          *)
series_sum(cells) ==
    IF \E i \in 1..Len(cells) : cells[i].t = "inf" THEN Inf
    ELSE Num(SumNum(cells))

(* Series.count(): the cells that are not missing *)
series_count(cells) == Cardinality({i \in 1..Len(cells) : ~isna(cells[i])})

(* sort_values(ascending=False): the keys in descending order *)
RECURSIVE SortSet_desc(_)
SortSet_desc(S) ==
    IF S = {} THEN <<>>
    ELSE <<SetMax(S)>> \o SortSet_desc(S \ {SetMax(S)})

RECURSIVE SortSet(_)
SortSet(S) ==
    IF S = {} THEN <<>>
    ELSE <<SetMin(S)>> \o SortSet(S \ {SetMin(S)})

(* str(Period('M')): 'yyyy-mm' *)
PeriodStr(p) ==
    IntToStr(p \div 100) \o <<"-">> \o IntToStr((p \div 10) % 10) \o IntToStr(p % 10)

(* The month key of each row:                                             *)
(* pd.to_datetime(df[datecol]).dt.to_period('M'), NaT where no date       *)
MonthKey(df, datecol, k) ==
    LET d == to_datetime(df.rows[k].cells[ColPos(df, datecol)]) IN
    IF d.t = "date" THEN [t |-> "period", n |-> to_period_M(d), s |-> <<>>] ELSE NaT

(* groupby(...).first() in place of sum: each bucket holds its first row *)
GroupByMonth_first(df, datecol, valcol) ==
    LET keys == SortSet({MonthKey(df, datecol, k).n :
                            k \in {i \in 1..Len(df.rows) : ~isna(MonthKey(df, datecol, i))}})
        members(p) == SelectRows(df.rows,
                        [k \in 1..Len(df.rows) |->
                            /\ ~isna(MonthKey(df, datecol, k))
                            /\ MonthKey(df, datecol, k).n = p])
    IN [i \in 1..Len(keys) |->
            [Month |-> PeriodStr(keys[i]),
             Total |-> series_sum(<<members(keys[i])[1].cells[ColPos(df, valcol)]>>),
             Count |-> 1]]

(* df.groupby(month key)[valcol].agg(['sum', 'count']).reset_index() with *)
(* the month turned to text: one bucket per month, months ascending; the  *)
(* rows whose key is NaT are in no group.                                 *)
GroupByMonth(df, datecol, valcol) ==
    LET keys == SortSet({MonthKey(df, datecol, k).n :
                            k \in {i \in 1..Len(df.rows) : ~isna(MonthKey(df, datecol, i))}})
        members(p) == SelectRows(df.rows,
                        [k \in 1..Len(df.rows) |->
                            /\ ~isna(MonthKey(df, datecol, k))
                            /\ MonthKey(df, datecol, k).n = p])
        vals(p) == [k \in 1..Len(members(p)) |-> members(p)[k].cells[ColPos(df, valcol)]]
    IN [i \in 1..Len(keys) |->
            [Month |-> PeriodStr(keys[i]),
             Total |-> series_sum(vals(keys[i])),
             Count |-> series_count(vals(keys[i]))]]

(* Series.cumsum() of the bucket totals *)
cumsum(buckets) ==
    [i \in 1..Len(buckets) |->
        series_sum([k \in 1..i |-> buckets[k].Total])]

(* --------------------------------------------------------------- views *)
(* A view returns [ok, err, st(, outflow_df)]: st is what the page shows  *)
(* when the view returns or raises.                                       *)

NoPage ==
    [shown |-> <<>>,
     total_sales |-> NaN, monthly_data |-> <<>>,
     total_balance |-> NaN, monthly_flow |-> <<>>,
     summary_data |-> <<>>,
     total_outflow |-> NaN, monthly_progress |-> <<>>, cumulative_data |-> <<>>]

create_enhanced_sales_analysis(sales_df, st0) ==
    LET s1 == [st0 EXCEPT !.shown = @ \o <<"Total Sales">>,
                          !.total_sales = series_sum(Column(sales_df, SaleConsideration_s))]
    IN  IF ~HasCol(sales_df, Area_s) THEN [ok |-> FALSE, err |-> "KeyError", st |-> s1]
        ELSE IF ~HasCol(sales_df, BHK_s) THEN [ok |-> FALSE, err |-> "ValueError", st |-> s1]
        ELSE IF ~HasCol(sales_df, FeedDate_s) THEN [ok |-> FALSE, err |-> "KeyError", st |-> s1]
        ELSE [ok |-> TRUE, err |-> "",
              st |-> [s1 EXCEPT !.shown = @ \o <<"Monthly Sales Trend">>,
                                !.monthly_data =
                                    GroupByMonth(sales_df, FeedDate_s, SaleConsideration_s)]]

(* outflow_df['Month'] = pd.to_datetime(outflow_df['Date of Payment'])     *)
(*                           .dt.to_period('M')                            *)
AssignMonth(df) ==
    IF HasCol(df, Month_s)
    THEN [df EXCEPT !.rows =
            [k \in 1..Len(df.rows) |->
                [df.rows[k] EXCEPT !.cells[ColPos(df, Month_s)] =
                    MonthKey(df, DateOfPayment_s, k)]]]
    ELSE [cols |-> Append(df.cols, Str(Month_s)),
          rows |-> [k \in 1..Len(df.rows) |->
                      [df.rows[k] EXCEPT !.cells =
                          Append(@, MonthKey(df, DateOfPayment_s, k))]]]

create_financial_analysis(bank_df, outflow_df, st0) ==
    LET s1 == [st0 EXCEPT !.shown = @ \o <<"Total Balance">>,
                          !.total_balance = series_sum(Column(bank_df, Balance_s))]
        s2 == [s1 EXCEPT !.shown = @ \o <<"Cash Flow Analysis">>,
                         !.monthly_flow =
                             GroupByMonth(outflow_df.df, DateOfPayment_s, GrossAmount_s)]
    IN  IF \E c \in {Credit_s, Debit_s, AccountDescription_s} : ~HasCol(bank_df, c)
        THEN [ok |-> FALSE, err |-> "KeyError", st |-> s1, outflow_df |-> outflow_df]
        ELSE IF ~outflow_df.some
        THEN [ok |-> HasCol(bank_df, AccountNo_s),
              err |-> IF HasCol(bank_df, AccountNo_s) THEN "" ELSE "KeyError",
              st |-> s1, outflow_df |-> outflow_df]
        ELSE IF ~HasCol(outflow_df.df, CodeTagging_s) \/ ~HasCol(bank_df, AccountNo_s)
        THEN [ok |-> FALSE, err |-> "KeyError", st |-> s2,
              outflow_df |-> Some(AssignMonth(outflow_df.df))]
        ELSE [ok |-> TRUE, err |-> "", st |-> s2,
              outflow_df |-> Some(AssignMonth(outflow_df.df))]

(* One entry of summary_data *)
SummaryRow(entry) ==
    [Account |-> entry.name,
     Transactions |-> Len(entry.df.rows),
     TotalAmount |-> series_sum(Column(entry.df, Amount_s)),
     CurrentBalance |->
        IF HasCol(entry.df, RunningTotal_s)
        THEN entry.df.rows[Len(entry.df.rows)].cells[ColPos(entry.df, RunningTotal_s)]
        ELSE Num(0)]

RECURSIVE SummaryData(_)
SummaryData(account_data) ==
    IF Len(account_data) = 0 THEN <<>>
    ELSE (IF Len(Head(account_data).df.rows) > 0 /\ HasCol(Head(account_data).df, Amount_s)
          THEN <<SummaryRow(Head(account_data))>> ELSE <<>>)
         \o SummaryData(Tail(account_data))

(* x_values = pd.to_datetime(acc_df['Txn Date']) of the balance trend, no  *)
(* errors='coerce': text that is no date raises, and so does a label that  *)
(* two columns carry.                                                      *)
TxnDate_s ==
    <<"T", "x", "n", " ", "D", "a", "t", "e">>

BalanceTrendRaises(account_data) ==
    \E e \in 1..Len(account_data) :
        LET df == account_data[e].df IN
        /\ HasCol(df, RunningTotal_s) /\ HasCol(df, TxnDate_s)
        /\ \/ Cardinality(ColPositions(df, TxnDate_s)) > 1
           \/ \E k \in 1..Len(df.rows) : df.rows[k].cells[ColPos(df, TxnDate_s)].t = "str"

(* ', '.join(x.unique()) raises TypeError on a value that is no text *)
JoinRaises(df) ==
    \E k \in 1..Len(df.rows) :
        /\ ~isna(MonthKey(df, DateOfPayment_s, k))
        /\ df.rows[k].cells[ColPos(df, CodeTagging_s)].t # "str"

(* The Project Progress Tracking section; its exceptions are caught and   *)
(* shown inside the section.                                              *)
ProgressSection(outflow_df, st0) ==
    IF ~outflow_df.some \/ Len(outflow_df.df.rows) = 0 \/ Len(outflow_df.df.cols) = 0
    THEN st0
    ELSE LET s1 == [st0 EXCEPT !.shown = @ \o <<"Project Progress Tracking">>]
             s2 == [s1 EXCEPT !.shown = @ \o <<"Total Project Outflow">>,
                              !.total_outflow =
                                  series_sum(Column(outflow_df.df, GrossAmount_s))]
             mp == GroupByMonth(outflow_df.df, DateOfPayment_s, GrossAmount_s)
         IN  IF ~HasCol(outflow_df.df, CodeTagging_s)
             THEN [s1 EXCEPT !.shown = @ \o <<"Error creating progress analysis">>]
             ELSE IF JoinRaises(outflow_df.df)
             THEN [s2 EXCEPT !.shown = @ \o <<"Error creating progress analysis">>]
             ELSE [s2 EXCEPT !.shown = @ \o <<"Monthly Overview">>,
                             !.monthly_progress = mp,
                             !.cumulative_data = cumsum(mp)]

(* the view without its two early returns: the warning is shown and the *)
(* function goes on to the outflow section                              *)
create_project_progress_late(account_data, outflow_df, st0) ==
    IF Len(SummaryData(account_data)) = 0
    THEN [ok |-> TRUE, err |-> "",
          st |-> ProgressSection(outflow_df,
                    [st0 EXCEPT !.shown =
                        @ \o <<"No account data available for analysis.">>])]
    ELSE LET s1 == [st0 EXCEPT !.shown = @ \o <<"Account Performance Summary">>,
                               !.summary_data = SummaryData(account_data)]
         IN  IF BalanceTrendRaises(account_data)
             THEN [ok |-> FALSE, err |-> "ValueError", st |-> s1]
             ELSE [ok |-> TRUE, err |-> "", st |-> ProgressSection(outflow_df, s1)]

create_project_progress(account_data, outflow_df, st0) ==
    IF Len(account_data) = 0
    THEN [ok |-> TRUE, err |-> "",
          st |-> [st0 EXCEPT !.shown = @ \o <<"No account data available for analysis.">>]]
    ELSE IF Len(SummaryData(account_data)) = 0
    THEN [ok |-> TRUE, err |-> "",
          st |-> [st0 EXCEPT !.shown =
                     @ \o <<"Account Performance Summary",
                             "Could not process account summary data.">>]]
    ELSE LET s1 == [st0 EXCEPT !.shown = @ \o <<"Account Performance Summary">>,
                               !.summary_data = SummaryData(account_data)]
         IN  IF BalanceTrendRaises(account_data)
             THEN [ok |-> FALSE, err |-> "ValueError", st |-> s1]
             ELSE [ok |-> TRUE, err |-> "", st |-> ProgressSection(outflow_df, s1)]

(* ---------------------------------------------------------------- main *)

VARIABLES
    file,           \* the uploaded workbook: its sheets
    pc,             \* where main() is
    page,           \* the analysis selected in the sidebar
    sales_df,       \* main's locals, None until assigned
    bank_df,
    outflow_df,
    account_data,
    error,          \* the exception main's except clause caught
    calls,          \* how often each loader has been called in this run
    st              \* what the page shows

vars == <<file, pc, page, sales_df, bank_df, outflow_df, account_data, error, calls, st>>

Pages == {"Sales Analysis", "Financial Overview", "Project Progress"}

(* except Exception as e: st.error(f"Error processing data: ...") *)
Except(e, shown) ==
    /\ pc' = "error"
    /\ error' = e
    /\ st' = [shown EXCEPT !.shown = @ \o <<"Error processing data">>]

LoadSales ==
    /\ pc = "load_sales"
    /\ calls' = [calls EXCEPT !.sales = @ + 1]
    /\ LET r == load_sales_data(file) IN
       IF r.ok
       THEN /\ sales_df' = Some(r.df)
            /\ pc' = "load_bank"
            /\ UNCHANGED <<error, st>>
       ELSE /\ Except(r.err, st)
            /\ UNCHANGED sales_df
    /\ UNCHANGED <<file, page, bank_df, outflow_df, account_data>>

LoadBank ==
    /\ pc = "load_bank"
    /\ calls' = [calls EXCEPT !.bank = @ + 1]
    /\ LET r == load_bank_data(file) IN
       IF r.ok
       THEN /\ bank_df' = Some(r.df)
            /\ pc' = "load_outflow"
            /\ UNCHANGED <<error, st>>
       ELSE /\ Except(r.err, st)
            /\ UNCHANGED bank_df
    /\ UNCHANGED <<file, page, sales_df, outflow_df, account_data>>

LoadOutflow ==
    /\ pc = "load_outflow"
    /\ calls' = [calls EXCEPT !.outflow = @ + 1]
    /\ outflow_df' = load_outflow_data(file)
    /\ pc' = "load_accounts"
    /\ UNCHANGED <<file, page, sales_df, bank_df, account_data, error, st>>

LoadAccounts ==
    /\ pc = "load_accounts"
    /\ calls' = [calls EXCEPT !.accounts = @ + 1]
    /\ account_data' = load_account_data(file)
    /\ pc' = "navigate"
    /\ UNCHANGED <<file, page, sales_df, bank_df, outflow_df, error, st>>

(* page = st.sidebar.radio(...) *)
Navigate ==
    /\ pc = "navigate"
    /\ \E p \in Pages :
        /\ page' = p
        /\ pc' = IF p = "Project Progress" THEN "reload_accounts" ELSE "render"
    /\ UNCHANGED <<file, sales_df, bank_df, outflow_df, account_data, error, calls, st>>

RenderSales ==
    /\ pc = "render" /\ page = "Sales Analysis"
    /\ LET r == create_enhanced_sales_analysis(sales_df.df, st) IN
       IF r.ok THEN pc' = "footer" /\ st' = r.st /\ UNCHANGED error
       ELSE Except(r.err, r.st)
    /\ UNCHANGED <<file, page, sales_df, bank_df, outflow_df, account_data, calls>>

RenderFinancial ==
    /\ pc = "render" /\ page = "Financial Overview"
    /\ LET r == create_financial_analysis(bank_df.df, outflow_df, st) IN
       /\ outflow_df' = r.outflow_df
       /\ IF r.ok THEN pc' = "footer" /\ st' = r.st /\ UNCHANGED error
          ELSE Except(r.err, r.st)
    /\ UNCHANGED <<file, page, sales_df, bank_df, account_data, calls>>

(* account_data = load_account_data(uploaded_file) of the else branch *)
ReloadAccounts ==
    /\ pc = "reload_accounts"
    /\ calls' = [calls EXCEPT !.accounts = @ + 1]
    /\ account_data' = load_account_data(file)
    /\ pc' = "render"
    /\ UNCHANGED <<file, page, sales_df, bank_df, outflow_df, error, st>>

RenderProgress ==
    /\ pc = "render" /\ page = "Project Progress"
    /\ LET r == create_project_progress(account_data, outflow_df, st) IN
       IF r.ok THEN pc' = "footer" /\ st' = r.st /\ UNCHANGED error
       ELSE Except(r.err, r.st)
    /\ UNCHANGED <<file, page, sales_df, bank_df, outflow_df, account_data, calls>>

Footer ==
    /\ pc = "footer"
    /\ pc' = "done"
    /\ st' = [st EXCEPT !.shown = @ \o <<"Last updated">>]
    /\ UNCHANGED <<file, page, sales_df, bank_df, outflow_df, account_data, error, calls>>

Next ==
    \/ LoadSales
    \/ LoadBank
    \/ LoadOutflow
    \/ LoadAccounts
    \/ Navigate
    \/ RenderSales
    \/ RenderFinancial
    \/ ReloadAccounts
    \/ RenderProgress
    \/ Footer

(* -------------------------------------------------------------- inputs *)
(* The workbooks a run may be given.  Each family varies one part of a    *)
(* well-formed workbook: the first column above the table, the header     *)
(* labels, the data rows, or which sheets exist.                          *)

MaxRows == 3

SeqsUpTo(S, n) == UNION {[1..k -> S] : k \in 0..n}

Sheet(rows) == [present |-> TRUE, rows |-> rows]
Absent == [present |-> FALSE, rows |-> <<>>]

(* Monthly Sale Tracker: Sr No, Area, Sale Consideration, Feed in          *)
(* 30-Month-Year format, BHK                                               *)
SalesTitle == <<Str(<<"S", "a", "l", "e", "s", " ", "r", "e", "p", "o", "r", "t">>), NaN, NaN, NaN, NaN>>
SalesHeader(marker) ==
    <<Str(marker), Str(Area_s), Str(SaleConsideration_s), Str(FeedDate_s), Str(BHK_s)>>

SalesRows ==
    { <<Num(1), Num(2), Num(3), Date(20240130), Str(<<"2", " ", "B", "H", "K">>)>>,
      <<Num(2), Num(4), Str(<<"7">>), Date(20231230), Str(<<"2", "-", "B", "H", "K">>)>>,
      <<Num(3), Num(2), Num(5), NaN, Str(<<"2", "b", "h", "k">>)>>,
      <<Num(4), Num(6), NaN, Date(20240130), Str(<<"3", " ", "B", "H", "K">>)>>,
      <<NaN, NaN, NaN, NaN, NaN>>,
      <<Str(<<"T", "o", "t", "a", "l">>), NaN, NaN, NaN, NaN>>,
      <<Num(5), Str(<<"n", "/", "a">>), Num(1), Str(<<"s", "o", "o", "n">>), NaN>>,
      <<Num(6), Num(2), Str(<<"i", "n", "f">>), Date(20240215), Str(<<"2", "B", "H", "K">>)>> }

SrNoSpellings == {SrNo_s, <<"s", "r", " ", "n", "o">>, <<" ", "S", "r", " ", "N", "o", " ">>}

SalesScanSheets ==
    {Sheet(above \o <<<<Num(1), Num(2), Num(3), Date(20240130), Str(<<"2", " ", "B", "H", "K">>)>>>>) :
        above \in SeqsUpTo({SalesHeader(m) : m \in SrNoSpellings}
                           \cup {SalesTitle, <<Num(9), Num(2), Num(8), Date(20240130), NaN>>},
                           MaxRows)}

SalesCellSheets ==
    {Sheet(<<SalesTitle, SalesHeader(SrNo_s)>> \o rows) : rows \in SeqsUpTo(SalesRows, MaxRows)}

SalesLabelSheets ==
    {Sheet(<<SalesTitle,
             <<Str(SrNo_s), a, c, d, b>>,
             <<Num(1), Str(<<"2", "5", "0">>), Num(3), Date(20240130), Str(<<"2", "-", "B", "H", "K">>)>>,
             <<Num(2), Num(4), Str(<<"7">>), Date(20231230), NaN>>>>) :
        a \in {Str(Area_s), Str(<<"A", "R", "E", "A">>), Str(SaleConsideration_s)},
        c \in {Str(SaleConsideration_s), Str(<<"S", "a", "l", "e", " ", "C", "o", "n", "s", "i", "d", "e", "r", "a", "t", "i", "o", "n", " ">>), Str(Area_s), NaN},
        d \in {Str(FeedDate_s), Str(BHK_s)},
        b \in {Str(BHK_s), Str(<<"b", "h", "k">>), Str(FeedDate_s)}}

BaseSales ==
    Sheet(<<SalesTitle, SalesHeader(SrNo_s),
            <<Num(1), Num(2), Num(3), Date(20240130), Str(<<"2", " ", "B", "H", "K">>)>>,
            <<Num(2), Num(4), Num(7), Date(20231230), Str(<<"3", " ", "B", "H", "K">>)>>>>)

(* Bank Balances: A/c #, Account Description, Account No, Credit, Debit,   *)
(* Balance                                                                 *)
BankTitle == <<Str(<<"B", "a", "n", "k", " ", "b", "a", "l", "a", "n", "c", "e", "s">>), NaN, NaN, NaN, NaN, NaN>>
BankHeader(marker, credit, balance) ==
    <<Str(marker), Str(AccountDescription_s), Str(AccountNo_s), credit, Str(Debit_s), balance>>

BankRows ==
    { <<Num(1), Str(<<"E", "s", "c", "r", "o", "w">>), Num(101), Num(9), Num(4), Num(5)>>,
      <<Num(2), Str(<<"C", "u", "r", "r", "e", "n", "t">>), Num(102), Num(3), Str(<<"-">>), NaN>>,
      <<Num(3), Str(<<"R", "E", "R", "A">>), Num(103), Str(<<"8">>), Num(2), Str(<<"n", "i", "l">>)>>,
      <<NaN, NaN, NaN, NaN, NaN, NaN>> }

AcNoSpellings == {AcNo_s, <<"a", "/", "c", " ", "#">>}

BankScanSheets ==
    {Sheet(above \o <<<<Num(1), Str(<<"E", "s", "c", "r", "o", "w">>), Num(101), Num(9), Num(4), Num(5)>>>>) :
        above \in SeqsUpTo({BankHeader(m, Str(Credit_s), Str(Balance_s)) : m \in AcNoSpellings}
                           \cup {BankTitle,
                                 <<Num(9), Str(<<"S", "w", "e", "e", "p">>), Num(109), Num(1), Num(1), Num(8)>>},
                           MaxRows)}

BankCellSheets ==
    {Sheet(<<BankTitle, BankHeader(AcNo_s, Str(Credit_s), Str(Balance_s))>> \o rows) :
        rows \in SeqsUpTo(BankRows, MaxRows)}

BankLabelSheets ==
    {Sheet(<<BankHeader(AcNo_s, c, b),
             <<Num(1), Str(<<"E", "s", "c", "r", "o", "w">>), Num(101), Str(<<"9">>), Num(4), Num(5)>>>>) :
        c \in {Str(Credit_s), Str(<<"C", "R", "E", "D", "I", "T">>)},
        b \in {Str(Balance_s), Str(<<"b", "a", "l", "a", "n", "c", "e">>), Str(Credit_s), NaN}}

BaseBank ==
    Sheet(<<BankTitle, BankHeader(AcNo_s, Str(Credit_s), Str(Balance_s)),
            <<Num(1), Str(<<"E", "s", "c", "r", "o", "w">>), Num(101), Num(9), Num(4), Num(5)>>>>)

(* Project Outflow Statement: Date of Payment, Gross Amount, Code Tagging *)
OutflowHeader == <<Str(DateOfPayment_s), Str(GrossAmount_s), Str(CodeTagging_s)>>

OutflowRows ==
    { <<Date(20240105), Num(5), Str(<<"C", "i", "v", "i", "l">>)>>,
      <<Date(20231220), Str(<<"7">>), Str(<<"S", "t", "e", "e", "l">>)>>,
      <<NaN, Num(3), Str(<<"C", "i", "v", "i", "l">>)>>,
      <<Date(20240105), Str(<<"t", "b", "c">>), Str(<<"C", "i", "v", "i", "l">>)>>,
      <<Str(<<"J", "a", "n">>), Num(4), Str(<<"S", "t", "e", "e", "l">>)>>,
      <<Date(20240212), Num(2), NaN>> }

OutflowCellSheets ==
    {Sheet(<<OutflowHeader>> \o rows) : rows \in SeqsUpTo(OutflowRows, MaxRows)}

OutflowLabelSheets ==
    {Sheet(<<h, <<Date(20240105), Num(5), Str(<<"C", "i", "v", "i", "l">>)>>>>) :
        h \in {<<Str(DateOfPayment_s), Str(<<"A", "m", "o", "u", "n", "t">>), Str(CodeTagging_s)>>,
               <<Str(<<"D", "a", "t", "e">>), Str(GrossAmount_s), Str(CodeTagging_s)>>,
               <<Str(DateOfPayment_s), Str(GrossAmount_s), Str(<<"C", "o", "d", "e">>)>>,
               <<Str(DateOfPayment_s), Str(<<"g", "r", "o", "s", "s", " ", "a", "m", "o", "u", "n", "t">>), Str(CodeTagging_s)>>}}
    \cup {Sheet(<<>>)}

BaseOutflow ==
    Sheet(<<OutflowHeader,
            <<Date(20240105), Num(5), Str(<<"C", "i", "v", "i", "l">>)>>,
            <<Date(20231220), Num(7), Str(<<"S", "t", "e", "e", "l">>)>>>>)

(* Ac #i: a title row, then Txn Date, Description, Amount, Running Total  *)
AccountTitle == <<Str(<<"S", "t", "a", "t", "e", "m", "e", "n", "t">>), NaN, NaN, NaN>>
AccountHeader(date, amount) ==
    <<Str(date), Str(<<"D", "e", "s", "c", "r", "i", "p", "t", "i", "o", "n">>), Str(amount), Str(RunningTotal_s)>>

BaseAccount ==
    Sheet(<<AccountTitle, AccountTitle, AccountHeader(TxnDate_s, Amount_s),
            <<Date(20240110), Str(<<"O", "p", "e", "n", "i", "n", "g">>), Num(6), Num(6)>>,
            <<Date(20240111), Str(<<"F", "e", "e", "s">>), Str(<<"2">>), Num(8)>>>>)

AccountSheets ==
    { Absent,
      BaseAccount,
      Sheet(<<AccountTitle, AccountTitle, AccountHeader(<<" ", "t", "x", "n", " ", "d", "a", "t", "e">>, Amount_s),
              <<Str(<<"1", "0", " ", "J", "a", "n">>), Str(<<"O", "p", "e", "n", "i", "n", "g">>), Num(6), Str(<<"s", "i", "x">>)>>,
              <<NaN, NaN, NaN, NaN>>>>),
      Sheet(<<AccountTitle, AccountTitle, AccountHeader(TxnDate_s, <<"A", "m", "t">>),
              <<Date(20240110), Str(<<"O", "p", "e", "n", "i", "n", "g">>), Num(6), Num(6)>>>>),
      Sheet(<<AccountTitle, AccountTitle,
              <<Date(20240110), Str(<<"O", "p", "e", "n", "i", "n", "g">>), Num(6), Num(6)>>>>),
      Sheet(<<AccountTitle, AccountTitle, AccountHeader(TxnDate_s, Amount_s),
              <<Str(<<"1", "0", " ", "J", "a", "n">>), Str(<<"O", "p", "e", "n", "i", "n", "g">>), Num(6), Num(6)>>>>),
      Sheet(<<AccountHeader(TxnDate_s, Amount_s),
              <<Date(20240110), Str(<<"O", "p", "e", "n", "i", "n", "g">>), Num(6), Num(6)>>,
              <<Date(20240111), Str(<<"F", "e", "e", "s">>), Num(2), Num(8)>>>>) }

Accounts(first, second, last) ==
    [i \in 1..NumAccounts |->
        IF i = 1 THEN first ELSE IF i = 2 THEN second
        ELSE IF i = NumAccounts THEN last ELSE Absent]

BaseAccounts == Accounts(BaseAccount, Absent, BaseAccount)

Base ==
    [sales |-> BaseSales, bank |-> BaseBank, outflow |-> BaseOutflow,
     accounts |-> BaseAccounts]

(* the sheets of each domain that make its loader fail, or succeed *)
SalesKinds ==
    {BaseSales, Absent,
     Sheet(<<SalesTitle, <<Num(1), Num(2), Num(3), Date(20240130), Str(<<"2", " ", "B", "H", "K">>)>>>>),
     Sheet(<<<<Str(SrNo_s), Str(Area_s), Str(<<"P", "r", "i", "c", "e">>), Str(FeedDate_s), Str(BHK_s)>>,
             <<Num(1), Num(2), Num(3), Date(20240130), Str(<<"2", " ", "B", "H", "K">>)>>>>)}
BankKinds ==
    {BaseBank, Absent,
     Sheet(<<BankHeader(AcNo_s, Str(Credit_s), Str(<<"C", "l", "o", "s", "i", "n", "g">>)),
             <<Num(1), Str(<<"E", "s", "c", "r", "o", "w">>), Num(101), Num(9), Num(4), Num(5)>>>>)}
OutflowKinds ==
    {BaseOutflow, Absent,
     Sheet(<<<<Str(DateOfPayment_s), Str(<<"A", "m", "o", "u", "n", "t">>), Str(CodeTagging_s)>>,
             <<Date(20240105), Num(5), Str(<<"C", "i", "v", "i", "l">>)>>>>)}
AccountKinds ==
    {BaseAccounts, Accounts(Absent, Absent, Absent),
     Accounts(Sheet(<<AccountTitle, AccountTitle, AccountHeader(TxnDate_s, <<"A", "m", "t">>),
                      <<Date(20240110), Str(<<"O", "p", "e", "n", "i", "n", "g">>), Num(6), Num(6)>>>>),
              Absent, Absent)}

Workbooks ==
    {[Base EXCEPT !.sales = x] : x \in SalesScanSheets \cup SalesCellSheets \cup SalesLabelSheets}
    \cup {[Base EXCEPT !.bank = x] : x \in BankScanSheets \cup BankCellSheets \cup BankLabelSheets}
    \cup {[Base EXCEPT !.outflow = x] : x \in OutflowCellSheets \cup OutflowLabelSheets}
    \cup {[Base EXCEPT !.accounts = Accounts(a, b, c)] :
            a \in AccountSheets, b \in AccountSheets, c \in {Absent, BaseAccount}}
    \cup {[sales |-> s, bank |-> b, outflow |-> o, accounts |-> a] :
            s \in SalesKinds, b \in BankKinds, o \in OutflowKinds, a \in AccountKinds}

Init ==
    /\ file \in Workbooks
    /\ pc = "load_sales"
    /\ page = ""
    /\ sales_df = None
    /\ bank_df = None
    /\ outflow_df = None
    /\ account_data = <<>>
    /\ error = ""
    /\ calls = [sales |-> 0, bank |-> 0, outflow |-> 0, accounts |-> 0]
    /\ st = NoPage

Spec == Init /\ [][Next]_vars

(* -------------------------------------------------------------- claims *)

Range(f) == {f[i] : i \in DOMAIN f}

Terminated == pc \in {"done", "error"}

(* the first row of the sheet whose first cell is exactly the marker, 0 if none *)
FirstExact(sheet, marker) ==
    IF sheet.present /\ \E k \in 1..Len(sheet.rows) : sheet.rows[k][1] = Str(marker)
    THEN CHOOSE k \in 1..Len(sheet.rows) :
            /\ sheet.rows[k][1] = Str(marker)
            /\ \A i \in 1..(k - 1) : sheet.rows[i][1] # Str(marker)
    ELSE 0

IsNumberCell(c) ==
    \/ c.t \in {"num", "inf"}
    \/ c.t = "str" /\ c.s = <<"i", "n", "f">>
    \/ c.t = "str" /\ Len(c.s) > 0 /\ \A i \in 1..Len(c.s) : IsDigit(c.s[i])

(* the index labels of a frame's rows, in order *)
Idx(df) == [k \in 1..Len(df.rows) |-> df.rows[k].idx]

(* A loader that found the marker took the first marker row as header:    *)
(* the labels are that row and the rows come from below it, none of those *)
(* between two marker rows being lost.                                    *)
HeaderIsFirstMarker(loaded, sheet, marker, key) ==
    LET k0 == FirstExact(sheet, marker) IN
    loaded.some =>
        /\ loaded.df.cols = sheet.rows[k0]
        /\ \A i \in Range(Idx(loaded.df)) : i > k0
        /\ \A k \in (k0 + 1)..Len(sheet.rows) :
              (\E j \in 1..Len(sheet.rows[k0]) :
                    sheet.rows[k0][j] = Str(key) /\ sheet.rows[k][j].t = "num")
              => k \in Range(Idx(loaded.df))

MarkerAbsentFails(loaded, sheet) ==
    /\ pc = "error"
    /\ ~loaded.some
    /\ (sheet.present /\ Len(sheet.rows) > 0) => error = "IndexError"

(* C1: in load_sales_data ('Sr No') and load_bank_data ('A/c #') the header *)
(* row is the first row whose first cell is the marker; when no first cell  *)
(* is the marker the loader fails (IndexError) and nothing is loaded, the   *)
(* table never starts at row 0 by default.                                  *)
C1_MarkerLocation ==
    /\ calls.sales = 1 =>
          IF FirstExact(file.sales, SrNo_s) # 0
          THEN HeaderIsFirstMarker(sales_df, file.sales, SrNo_s, SaleConsideration_s)
          ELSE MarkerAbsentFails(sales_df, file.sales)
    /\ calls.bank = 1 =>
          IF FirstExact(file.bank, AcNo_s) # 0
          THEN HeaderIsFirstMarker(bank_df, file.bank, AcNo_s, Balance_s)
          ELSE MarkerAbsentFails(bank_df, file.bank)

(* a sales table was loaded from a sheet with two marker rows and a data  *)
(* row between them                                                       *)
C1_Witness ==
    /\ sales_df.some
    /\ \E k \in 1..Len(file.sales.rows) :
          /\ k > FirstExact(file.sales, SrNo_s) + 1
          /\ file.sales.rows[k][1] = Str(SrNo_s)
          /\ (k - 1) \in Range(Idx(sales_df.df))

(* C2: the run ends in main's global error state only if every domain     *)
(* (sales, bank, outflow, accounts) failed to load: a run in which some    *)
(* domain's table was loaded never ends in that state.                     *)
C2_Original ==
    pc = "error" =>
        /\ ~sales_df.some
        /\ ~bank_df.some
        /\ ~outflow_df.some
        /\ Len(account_data) = 0

(* C3: every loader has run before a view is rendered, and once the view  *)
(* has been selected no loader is called again.                           *)
C3_Original ==
    [][ /\ (pc' = "render" => \A d \in DOMAIN calls : calls'[d] >= 1)
        /\ (page # "" => calls' = calls) ]_vars

(* the marker row of the sheet exists and carries no label `column` *)
MissingColumn(sheet, marker, column) ==
    /\ FirstExact(sheet, marker) # 0
    /\ \A j \in 1..Len(sheet.rows[FirstExact(sheet, marker)]) :
          sheet.rows[FirstExact(sheet, marker)][j] # Str(column)

OutflowMissingColumn ==
    /\ file.outflow.present /\ Len(file.outflow.rows) > 0
    /\ \E c \in {GrossAmount_s, DateOfPayment_s} :
          \A j \in 1..Len(file.outflow.rows[1]) : file.outflow.rows[1][j] # Str(c)

(* C4: when a domain's header row is found but a required column is       *)
(* absent, that domain alone fails: the run still calls the loaders of the *)
(* other domains and does not end in the global error state because of it. *)
C4_Original ==
    /\ (calls.sales = 1 /\ MissingColumn(file.sales, SrNo_s, SaleConsideration_s))
          => ~(pc = "error" /\ calls.bank = 0)
    /\ (calls.bank = 1 /\ MissingColumn(file.bank, AcNo_s, Balance_s))
          => ~(pc = "error" /\ calls.outflow = 0)
    /\ (calls.outflow = 1 /\ OutflowMissingColumn)
          => ~(pc = "error" /\ calls.accounts = 0)

(* text that is no number *)
NotANumber(c) == c.t = "str" /\ ~IsNumberCell(c)

(* The loaded tables, each with the sheet rows it was read from, the      *)
(* distance from index label to sheet row and its declared numeric labels *)
LoadedTables ==
    (IF sales_df.some
     THEN {[df |-> sales_df.df, raw |-> file.sales.rows, off |-> 0,
            numeric |-> {Area_s, SaleConsideration_s, BSP_s}]} ELSE {})
    \cup (IF bank_df.some
     THEN {[df |-> bank_df.df, raw |-> file.bank.rows, off |-> 0,
            numeric |-> {Credit_s, Debit_s, Balance_s}]} ELSE {})
    \cup (IF outflow_df.some
     THEN {[df |-> outflow_df.df, raw |-> file.outflow.rows, off |-> 1,
            numeric |-> {GrossAmount_s}]} ELSE {})
    \cup {[df |-> account_data[e].df,
           raw |-> file.accounts[CHOOSE i \in 1..NumAccounts :
                                    SheetName(i) = account_data[e].name].rows,
           off |-> 1,
           numeric |-> {Amount_s, RunningTotal_s}] : e \in 1..Len(account_data)}

(* the marker row exists, carries the required label once and no declared *)
(* label twice                                                            *)
HeaderWellFormed(sheet, marker, required, declared) ==
    LET k0 == FirstExact(sheet, marker)
        n(l) == Cardinality({j \in 1..Len(sheet.rows[k0]) : sheet.rows[k0][j] = Str(l)})
    IN  k0 # 0 /\ n(required) = 1 /\ \A l \in declared : n(l) <= 1

(* C5: numeric coercion never raises: text that is no number becomes the  *)
(* missing marker in every declared numeric column, and a loader whose    *)
(* header is in order returns its table whatever the cells hold.          *)
C5_CoercionNeverRaises ==
    /\ \A tb \in LoadedTables :
          \A k \in 1..Len(tb.df.rows) : \A j \in 1..Len(tb.df.cols) :
              (/\ tb.df.cols[j] \in {Str(l) : l \in tb.numeric}
               /\ NotANumber(tb.raw[tb.df.rows[k].idx + tb.off][j]))
              => tb.df.rows[k].cells[j] = NaN
    /\ (calls.sales = 1 /\ HeaderWellFormed(file.sales, SrNo_s, SaleConsideration_s,
                               {Area_s, BSP_s, FeedDate_s, BHK_s}))
          => sales_df.some
    /\ (calls.bank = 1 /\ HeaderWellFormed(file.bank, AcNo_s, Balance_s, {Credit_s, Debit_s}))
          => bank_df.some
    /\ (calls.outflow = 1 /\ file.outflow.present /\ Len(file.outflow.rows) > 0
            /\ ~OutflowMissingColumn)
          => outflow_df.some

(* a loaded table keeps a row whose numeric cell was text that is no number *)
C5_Witness ==
    \E tb \in LoadedTables :
        \E k \in 1..Len(tb.df.rows) : \E j \in 1..Len(tb.df.cols) :
            /\ tb.df.cols[j] \in {Str(l) : l \in tb.numeric}
            /\ NotANumber(tb.raw[tb.df.rows[k].idx + tb.off][j])
            /\ tb.df.rows[k].cells[j] = NaN

RECURSIVE SumTotals(_)
SumTotals(buckets) ==
    IF Len(buckets) = 0 THEN Num(0)
    ELSE series_sum(<<Head(buckets).Total, SumTotals(Tail(buckets))>>)

Shown(section) == section \in Range(st.shown)

(* C6 as stated: the monthly totals add up to the total of the measured   *)
(* column over all rows of the table ('Total Sales', 'Total Project       *)
(* Outflow').                                                             *)
C6_Original ==
    /\ Shown("Monthly Sales Trend") => SumTotals(st.monthly_data) = st.total_sales
    /\ Shown("Monthly Overview") => SumTotals(st.monthly_progress) = st.total_outflow

(* the measured cells of the rows of the table that carry a date *)
DatedValues(df, datecol, valcol) ==
    LET dated == SelectRows(df.rows,
                    [k \in 1..Len(df.rows) |->
                        df.rows[k].cells[ColPos(df, datecol)].t = "date"])
    IN [k \in 1..Len(dated) |-> dated[k].cells[ColPos(df, valcol)]]

(* C6, amended: the monthly totals add up to the total of the measured    *)
(* column over the rows whose date is not missing; a row without a date   *)
(* is in no month.                                                        *)
C6_RollupOverDatedRows ==
    /\ Shown("Monthly Sales Trend") =>
          SumTotals(st.monthly_data)
            = series_sum(DatedValues(sales_df.df, FeedDate_s, SaleConsideration_s))
    /\ Shown("Monthly Overview") =>
          SumTotals(st.monthly_progress)
            = series_sum(DatedValues(outflow_df.df, DateOfPayment_s, GrossAmount_s))

(* the sales view has shown a rollup with two rows in one month, of a     *)
(* table that also holds a row without a date                             *)
C6_Witness ==
    /\ Shown("Monthly Sales Trend")
    /\ \E b \in Range(st.monthly_data) : b.Count = 2
    /\ \E k \in 1..Len(sales_df.df.rows) :
          isna(sales_df.df.rows[k].cells[ColPos(sales_df.df, FeedDate_s)])

(* a unit-type spelling without its separators, spaces and letter case *)
BHKKey(s) == str_replace(str_replace(str_lower(s), " "), "-")

(* C7: two spellings of a unit type that differ only in separator,       *)
(* spacing or case get the same normalized label, and normalizing a       *)
(* normalized label changes nothing.                                      *)
C7_Original ==
    (sales_df.some /\ HasCol(sales_df.df, BHK_s)) =>
        LET j == ColPos(sales_df.df, BHK_s)
            raw(k) == file.sales.rows[sales_df.df.rows[k].idx][j]
            out(k) == sales_df.df.rows[k].cells[j]
        IN  \A k1, k2 \in 1..Len(sales_df.df.rows) :
                /\ StandardizeBHK(out(k1)) = out(k1)
                /\ (raw(k1).t = "str" /\ raw(k2).t = "str"
                        /\ BHKKey(raw(k1).s) = BHKKey(raw(k2).s))
                     => out(k1) = out(k2)

(* the positions of the marker row that carry one of the labels *)
LabelPositions(sheet, k0, labels) ==
    {j \in 1..Len(sheet.rows[k0]) : sheet.rows[k0][j] \in {Str(l) : l \in labels}}

(* a cell that holds a value of its column's type *)
HasValue(c, label) ==
    IF label = FeedDate_s THEN c.t = "date" ELSE IsNumberCell(c)

RECURSIVE Collapse(_)
Collapse(s) ==
    IF Len(s) < 2 THEN s
    ELSE IF s[1] \in Whitespace /\ s[2] \in Whitespace THEN Collapse(Tail(s))
    ELSE <<Head(s)>> \o Collapse(Tail(s))

Normalized(s) == Collapse(str_strip(str_lower(s)))

SameText(c, name) == c.t = "str" /\ Normalized(c.s) = Normalized(name)

(* C9: a first-column cell that differs from the marker only by letter    *)
(* case or whitespace is recognized as the marker row, so the loader does *)
(* not fail for want of a marker.                                         *)
C9_Original ==
    /\ (calls.sales = 1 /\ file.sales.present
            /\ \E k \in 1..Len(file.sales.rows) : SameText(file.sales.rows[k][1], SrNo_s))
          => ~(pc = "error" /\ calls.bank = 0 /\ error = "IndexError")
    /\ (calls.bank = 1 /\ file.bank.present
            /\ \E k \in 1..Len(file.bank.rows) : SameText(file.bank.rows[k][1], AcNo_s))
          => ~(pc = "error" /\ calls.outflow = 0 /\ error = "IndexError")

(* C10: a column whose label differs from a declared numeric name only by *)
(* letter case or whitespace is coerced like that column: a loaded table  *)
(* holds no text in it.                                                   *)
C10_Original ==
    \A tb \in {x \in LoadedTables : x.off = 0} :
        \A k \in 1..Len(tb.df.rows) : \A j \in 1..Len(tb.df.cols) :
            (\E l \in tb.numeric : SameText(tb.df.cols[j], l))
                => tb.df.rows[k].cells[j].t # "str"


(* the declared date labels of a loaded table *)
DateLabels(tb) ==
    IF SaleConsideration_s \in tb.numeric THEN {FeedDate_s}
    ELSE IF GrossAmount_s \in tb.numeric THEN {DateOfPayment_s}
    ELSE {}

(* C11: in every table a loader returned, each cell of a declared numeric *)
(* column is a number or missing and each cell of a declared date column  *)
(* is a date or missing; none is text.                                    *)
C11_TypedColumns ==
    \A tb \in LoadedTables :
        \A k \in 1..Len(tb.df.rows) : \A j \in 1..Len(tb.df.cols) :
            /\ tb.df.cols[j] \in {Str(l) : l \in tb.numeric}
                  => tb.df.rows[k].cells[j].t \in {"num", "inf", "nan"}
            /\ tb.df.cols[j] \in {Str(l) : l \in DateLabels(tb)}
                  => tb.df.rows[k].cells[j].t \in {"date", "nat"}

(* a sales table keeps a row whose date cell was text and whose area was  *)
(* text of digits or text that is no number                               *)
C11_Witness ==
    /\ sales_df.some /\ HasCol(sales_df.df, FeedDate_s) /\ HasCol(sales_df.df, Area_s)
    /\ \E k \in 1..Len(sales_df.df.rows) :
          LET raw == file.sales.rows[sales_df.df.rows[k].idx] IN
          /\ raw[ColPos(sales_df.df, FeedDate_s)].t = "str"
          /\ raw[ColPos(sales_df.df, Area_s)].t = "str"
          /\ sales_df.df.rows[k].cells[ColPos(sales_df.df, FeedDate_s)] = NaT

(* C12: no loaded table holds an infinite value in a declared numeric     *)
(* column, and no total the page shows is infinite.                       *)
C12_Original ==
    /\ \A tb \in LoadedTables :
          \A k \in 1..Len(tb.df.rows) : \A j \in 1..Len(tb.df.cols) :
              tb.df.cols[j] \in {Str(l) : l \in tb.numeric}
                  => tb.df.rows[k].cells[j].t # "inf"
    /\ st.total_sales.t # "inf"
    /\ st.total_balance.t # "inf"
    /\ st.total_outflow.t # "inf"
    /\ \A b \in Range(st.monthly_data) \cup Range(st.monthly_flow)
                \cup Range(st.monthly_progress) : b.Total.t # "inf"


(* C13: rendering a view leaves every loaded table as it was: the same    *)
(* columns and the same cells after the view as before it.                *)
C13_Original ==
    [][ pc = "render" =>
            /\ sales_df' = sales_df
            /\ bank_df' = bank_df
            /\ outflow_df' = outflow_df
            /\ account_data' = account_data ]_vars

(* the marker row carries some text label in two columns *)
HasDuplicate(sheet, marker) ==
    LET k0 == FirstExact(sheet, marker) IN
    \E i, j \in 1..Len(sheet.rows[k0]) :
        i < j /\ sheet.rows[k0][i].t = "str" /\ sheet.rows[k0][i] = sheet.rows[k0][j]

(* C14: a label that two columns of the header row carry never makes the  *)
(* loader fail: the table is returned, the first occurrence kept.          *)
C14_Original ==
    /\ (/\ calls.sales = 1
        /\ FirstExact(file.sales, SrNo_s) # 0
        /\ ~MissingColumn(file.sales, SrNo_s, SaleConsideration_s)
        /\ HasDuplicate(file.sales, SrNo_s))
          => /\ sales_df.some
             /\ \A l \in {Area_s, SaleConsideration_s, BSP_s, FeedDate_s, BHK_s} :
                    Cardinality(ColPositions(sales_df.df, l)) <= 1
    /\ (/\ calls.bank = 1
        /\ FirstExact(file.bank, AcNo_s) # 0
        /\ ~MissingColumn(file.bank, AcNo_s, Balance_s)
        /\ HasDuplicate(file.bank, AcNo_s))
          => /\ bank_df.some
             /\ \A l \in {Credit_s, Debit_s, Balance_s} :
                    Cardinality(ColPositions(bank_df.df, l)) <= 1


(* the labels whose cells a loader rewrites *)
RewrittenLabels(tb) ==
    {Str(l) : l \in tb.numeric \cup DateLabels(tb)}
        \cup (IF SaleConsideration_s \in tb.numeric THEN {Str(BHK_s)} ELSE {})

(* C15: the rows of a loaded table are rows of the sheet, in the order of  *)
(* the sheet: the source positions increase strictly along the table, and  *)
(* each row carries the cells of its source row in every column of the    *)
(* sheet the loader does not rewrite.                                      *)
C15_SourceOrder ==
    \A tb \in LoadedTables :
        /\ \A k \in 1..Len(tb.df.rows) :
              /\ tb.df.rows[k].idx + tb.off \in 1..Len(tb.raw)
              /\ \A j \in 1..Len(tb.raw[tb.df.rows[k].idx + tb.off]) :
                    tb.df.cols[j] \notin RewrittenLabels(tb)
                        => tb.df.rows[k].cells[j] = tb.raw[tb.df.rows[k].idx + tb.off][j]
        /\ \A k \in 1..(Len(tb.df.rows) - 1) :
              tb.df.rows[k].idx < tb.df.rows[k + 1].idx

(* two rows kept around a dropped one, the first cells telling them apart *)
C15_Witness ==
    /\ sales_df.some
    /\ \E k \in 1..(Len(sales_df.df.rows) - 1) :
          /\ sales_df.df.rows[k + 1].idx > sales_df.df.rows[k].idx + 1
          /\ sales_df.df.rows[k].cells[1] # sales_df.df.rows[k + 1].cells[1]


(* the number yyyymm of a month text 'yyyy-mm' *)
MonthOrd(m) == 100 * StrToInt(SubSeq(m, 1, 4)) + StrToInt(SubSeq(m, 6, 7))

(* the months of the rows of df that carry a date *)
MonthsOf(df, datecol) ==
    {df.rows[k].cells[ColPos(df, datecol)].n \div 100 :
        k \in {i \in 1..Len(df.rows) : df.rows[i].cells[ColPos(df, datecol)].t = "date"}}

(* month keys strictly increasing, one bucket for each month of the table *)
BucketsAscending(buckets, df, datecol) ==
    /\ \A i \in 1..(Len(buckets) - 1) :
          MonthOrd(buckets[i].Month) < MonthOrd(buckets[i + 1].Month)
    /\ {MonthOrd(buckets[i].Month) : i \in 1..Len(buckets)} = MonthsOf(df, datecol)

(* C16: the monthly sales data and the monthly outflow progress data hold  *)
(* one bucket per month of the table, month keys strictly increasing; the  *)
(* cumulative outflow series has one value per bucket and its last value   *)
(* is the sum of all monthly totals.                                       *)
C16_BucketsAscending ==
    /\ Shown("Monthly Sales Trend") =>
          BucketsAscending(st.monthly_data, sales_df.df, FeedDate_s)
    /\ Shown("Monthly Overview") =>
          /\ BucketsAscending(st.monthly_progress, outflow_df.df, DateOfPayment_s)
          /\ Len(st.cumulative_data) = Len(st.monthly_progress)
          /\ Len(st.monthly_progress) > 0 =>
                st.cumulative_data[Len(st.cumulative_data)]
                    = SumTotals(st.monthly_progress)

(* two months in the outflow sheet, the later one first in the sheet *)
C16_Witness ==
    /\ Shown("Monthly Overview")
    /\ Len(st.monthly_progress) >= 2
    /\ \E k \in 1..(Len(outflow_df.df.rows) - 1) :
          LET a == outflow_df.df.rows[k].cells[ColPos(outflow_df.df, DateOfPayment_s)]
              b == outflow_df.df.rows[k + 1].cells[ColPos(outflow_df.df, DateOfPayment_s)]
          IN a.t = "date" /\ b.t = "date" /\ a.n \div 100 > b.n \div 100
    /\ st.cumulative_data[Len(st.cumulative_data)] # st.monthly_progress[1].Total


(* every cell of the sheets of the workbook *)
WorkbookCells ==
    UNION {Range(row) : row \in Range(file.sales.rows) \cup Range(file.bank.rows)
                                \cup Range(file.outflow.rows)
                                \cup UNION {Range(file.accounts[i].rows) : i \in 1..NumAccounts}}

(* C17: coercing again what was coerced changes nothing: each cell of a    *)
(* declared numeric column of a loaded table is its own numeric coercion,  *)
(* each cell of a declared date column its own date coercion, and for      *)
(* every cell of the workbook coercing twice gives what coercing once      *)
(* gives.                                                                  *)
C17_CoercionIdempotent ==
    /\ \A tb \in LoadedTables :
          \A k \in 1..Len(tb.df.rows) : \A j \in 1..Len(tb.df.cols) :
              /\ tb.df.cols[j] \in {Str(l) : l \in tb.numeric}
                    => to_numeric(tb.df.rows[k].cells[j]) = tb.df.rows[k].cells[j]
              /\ tb.df.cols[j] \in {Str(l) : l \in DateLabels(tb)}
                    => to_datetime(tb.df.rows[k].cells[j]) = tb.df.rows[k].cells[j]
    /\ \A c \in WorkbookCells :
          /\ to_numeric(to_numeric(c)) = to_numeric(c)
          /\ to_datetime(to_datetime(c)) = to_datetime(c)

(* a loaded sales table with a number parsed from text, a NaN and a NaT    *)
(* that took the place of text                                             *)
C17_Witness ==
    /\ sales_df.some
    /\ \E k \in 1..Len(sales_df.df.rows) : \E j \in 1..Len(sales_df.df.cols) :
          /\ sales_df.df.cols[j] \in {Str(Area_s), Str(SaleConsideration_s), Str(BSP_s)}
          /\ file.sales.rows[sales_df.df.rows[k].idx][j].t = "str"
          /\ sales_df.df.rows[k].cells[j].t = "num"
    /\ \E k \in 1..Len(sales_df.df.rows) : \E j \in 1..Len(sales_df.df.cols) :
          /\ sales_df.df.cols[j] \in {Str(Area_s), Str(SaleConsideration_s), Str(BSP_s)}
          /\ file.sales.rows[sales_df.df.rows[k].idx][j].t = "str"
          /\ sales_df.df.rows[k].cells[j] = NaN
    /\ \E k \in 1..Len(sales_df.df.rows) :
          /\ HasCol(sales_df.df, FeedDate_s)
          /\ file.sales.rows[sales_df.df.rows[k].idx][ColPos(sales_df.df, FeedDate_s)].t
                \in {"str", "num"}


(* the rows of a sheet in which some cell is 'txn date' or 'date', case    *)
(* and surrounding whitespace ignored                                      *)
DateHeaderRows(sheet) ==
    {k \in 1..Len(sheet.rows) : IsDateHeaderRow([idx |-> k, cells |-> sheet.rows[k]])}

(* a sheet with a date header row that labels one column 'Amount', at most *)
(* one 'Running Total', and has a number under 'Amount' below that row     *)
WellFormedAccount(sheet) ==
    /\ sheet.present
    /\ DateHeaderRows(sheet) # {}
    /\ LET h == SetMin(DateHeaderRows(sheet))
           amount == {j \in 1..Len(sheet.rows[h]) : sheet.rows[h][j] = Str(Amount_s)}
           total == {j \in 1..Len(sheet.rows[h]) : sheet.rows[h][j] = Str(RunningTotal_s)}
       IN /\ Cardinality(amount) = 1
          /\ Cardinality(total) <= 1
          /\ \E k \in (h + 1)..Len(sheet.rows) : \E j \in amount :
                sheet.rows[k][j].t = "num"

(* the number i of the sheet 'Ac #i' of an entry *)
SheetNo(e) == CHOOSE i \in 1..NumAccounts : SheetName(i) = e.name

(* C18: what load_account_data returns has its entries in ascending sheet  *)
(* order, each keyed by one of the 13 names and a non-empty table without  *)
(* a missing Amount; the labels of an entry are the first row of its sheet *)
(* that holds 'txn date' or 'date'; a sheet without such a row has no      *)
(* entry; and a well-formed sheet has its entry whatever the other sheets  *)
(* are.                                                                    *)
C18_Original ==
    calls.accounts >= 1 =>
        /\ \A e \in 1..Len(account_data) :
              /\ \E i \in 1..NumAccounts : account_data[e].name = SheetName(i)
              /\ Len(account_data[e].df.rows) > 0
              /\ HasCol(account_data[e].df, Amount_s)
              /\ \A k \in 1..Len(account_data[e].df.rows) :
                    ~isna(account_data[e].df.rows[k].cells[ColPos(account_data[e].df, Amount_s)])
        /\ \A e \in 1..(Len(account_data) - 1) :
              SheetNo(account_data[e]) < SheetNo(account_data[e + 1])
        /\ \A e \in 1..Len(account_data) :
              LET sheet == file.accounts[SheetNo(account_data[e])] IN
              /\ DateHeaderRows(sheet) # {}
              /\ account_data[e].df.cols = sheet.rows[SetMin(DateHeaderRows(sheet))]
        /\ \A i \in 1..NumAccounts :
              WellFormedAccount(file.accounts[i])
                  => \E e \in 1..Len(account_data) : account_data[e].name = SheetName(i)


(* C19: load_outflow_data never raises: after it main goes on to the       *)
(* account loader with no error; it returns None when the sheet or one of  *)
(* its two columns is absent, and otherwise a table in which every row has *)
(* a number as Gross Amount; after None the Cash Flow tab and the Project  *)
(* Progress Tracking section are skipped and nothing is computed from the  *)
(* outflow table.                                                          *)
C19_OutflowNeverRaises ==
    calls.outflow = 1 =>
        /\ calls.accounts = 0 => pc = "load_accounts" /\ error = ""
        /\ (~file.outflow.present \/ OutflowMissingColumn) => ~outflow_df.some
        /\ outflow_df.some =>
              /\ HasCol(outflow_df.df, GrossAmount_s)
              /\ \A k \in 1..Len(outflow_df.df.rows) :
                    outflow_df.df.rows[k].cells[ColPos(outflow_df.df, GrossAmount_s)].t
                        \in {"num", "inf"}
        /\ ~outflow_df.some =>
              /\ ~Shown("Cash Flow Analysis")
              /\ ~Shown("Project Progress Tracking")
              /\ st.monthly_flow = <<>> /\ st.monthly_progress = <<>>
              /\ st.total_outflow = NaN /\ st.cumulative_data = <<>>

(* the sheet is there without its 'Gross Amount' column, and the Project   *)
(* Progress page was rendered to its end                                   *)
C19_Witness ==
    /\ file.outflow.present /\ OutflowMissingColumn
    /\ ~outflow_df.some
    /\ page = "Project Progress" /\ pc = "done"
    /\ Shown("Account Performance Summary")


(* section a is shown, and before section b *)
ShownBefore(a, b) ==
    \E i, j \in 1..Len(st.shown) : i < j /\ st.shown[i] = a /\ st.shown[j] = b

(* C20: the Project Progress Tracking section comes only after the account *)
(* summary; with no account data the view shows its warning and returns:   *)
(* no summary, no metric, no outflow section, whatever the outflow table   *)
(* is; and for account data that yields no summary row it shows the other  *)
(* warning under the summary heading and returns the same way.             *)
C20_SummaryBeforeProgress ==
    /\ Shown("Project Progress Tracking") =>
          /\ st.summary_data # <<>>
          /\ ShownBefore("Account Performance Summary", "Project Progress Tracking")
    /\ (page = "Project Progress" /\ pc \in {"footer", "done"} /\ account_data = <<>>) =>
          /\ st.shown \in {<<"No account data available for analysis.">>,
                           <<"No account data available for analysis.", "Last updated">>}
          /\ st.summary_data = <<>> /\ st.total_outflow = NaN
          /\ st.monthly_progress = <<>> /\ st.cumulative_data = <<>>
    /\ LET r == create_project_progress(
                    <<[name |-> SheetName(1), df |-> EmptyDF]>>, outflow_df, NoPage)
       IN  /\ r.ok
           /\ r.st = [NoPage EXCEPT !.shown =
                        <<"Account Performance Summary",
                          "Could not process account summary data.">>]

(* no account sheet loaded, an outflow table with rows, the page finished *)
C20_Witness ==
    /\ page = "Project Progress" /\ pc = "done"
    /\ account_data = <<>>
    /\ outflow_df.some /\ Len(outflow_df.df.rows) > 0
    /\ Shown("No account data available for analysis.")

====
